---- MODULE Spec2Model ----
(***************************************************************************)
(* Column-level lineage engine of ddl_lineage_engine.py, with the unknown- *)
(* alias heuristic of parse_view_ddl.py, the grouped lineage of            *)
(* view_ddl_parser.py and the DDLNormalizer of normalize_view_ddl.py.      *)
(*                                                                         *)
(* The SQL parser (sqlglot) is an external collaborator: the model starts  *)
(* from the parsed tree.  A SELECT node is a record                        *)
(*     [projs, from, with]                                                 *)
(* projs : the projections, each [alias, expr] (alias "" = no AS alias),   *)
(* from  : the FROM/JOIN items in source order, each a table               *)
(*         [kind |-> "table", name, alias] (alias "" = none) or a derived  *)
(*         table [kind |-> "subquery", alias, body],                       *)
(* with  : the CTE definitions [name, body] of its WITH clause.            *)
(* An expression is a column [kind |-> "column", table, name] (table "" =  *)
(* unqualified), a function call [kind |-> "func", fname, args], a literal  *)
(* [kind |-> "literal", text] or a keyword [kind |-> "var", text].         *)
(* Python dicts are insertion ordered: a dict is a sequence of [k, v].     *)
(***************************************************************************)
EXTENDS Naturals, Sequences, FiniteSets, TLC

VARIABLES sql, pc, result, depth, log, vpc, grouped, ddl, npc, norm, normalized, ncalls

engine_vars == <<sql, pc, result, depth, log, vpc, grouped>>
normalizer_vars == <<ddl, npc, norm, normalized, ncalls>>
vars == <<sql, pc, result, depth, log, vpc, grouped, ddl, npc, norm, normalized, ncalls>>

\* Number of nested extract_select calls after which the interpreter raises
\* RecursionError (the interpreter's recursion limit, scaled down).
RecursionLimit == 6

\* Longest projection list of the multi-projection inputs.
MaxProjs == 2

\* Most calls of process() made on one engine instance.
MaxCalls == 3

\* Most calls of normalize() made on one DDLNormalizer instance.
MaxNormalizeCalls == 3

-----------------------------------------------------------------------------
(* Tree constructors                                                       *)

Col(q, n) == [kind |-> "column", table |-> q, name |-> n]
Fn(f, as) == [kind |-> "func", fname |-> f, args |-> as]
Lit(t) == [kind |-> "literal", text |-> t]
Var(t) == [kind |-> "var", text |-> t]
\* a call whose first argument u is a keyword by position (the unit of
\* DATEDIFF or DATEADD), left by the parser as a Var or as a Column node
UnitFn(f, u, as) == [kind |-> "func", fname |-> f, args |-> <<u>> \o as, unit |-> u]
P(a, e) == [alias |-> a, expr |-> e]
T(n, a) == [kind |-> "table", name |-> n, alias |-> a]
Sub(a, b) == [kind |-> "subquery", alias |-> a, body |-> b]
Cte(n, b) == [name |-> n, body |-> b]
Sel(ps, fs) == [projs |-> ps, from |-> fs, with |-> <<>>]
SelWith(ws, ps, fs) == [projs |-> ps, from |-> fs, with |-> ws]

NoSelect == [projs |-> <<>>, from |-> <<>>, with |-> <<>>, absent |-> TRUE]
IsSelect(q) == "absent" \notin DOMAIN q

None == "<None>"

-----------------------------------------------------------------------------
(* Python list and dict helpers                                            *)

RECURSIVE Concat(_)
Concat(ss) == IF ss = <<>> THEN <<>> ELSE Head(ss) \o Concat(Tail(ss))

Filter(s, Test(_)) == SelectSeq(s, Test)

\* a local variable: v is computed once and then used by Body
Once(v, Body(_)) == CHOOSE r \in { Body(x) : x \in {v} } : TRUE

Contains(s, e) == \E i \in 1..Len(s) : s[i] = e

\* list(xs) in place of list(dict.fromkeys(xs)): repeated entries are kept
Dedup_keep_all(xs) == xs

\* list(dict.fromkeys(xs)): first occurrences, in order
RECURSIVE DedupFrom(_, _)
DedupFrom(xs, seen) ==
    IF xs = <<>> THEN seen
    ELSE DedupFrom(Tail(xs), IF Contains(seen, Head(xs)) THEN seen ELSE Append(seen, Head(xs)))

Dedup(xs) == DedupFrom(xs, <<>>)

DictHas(d, k) == \E i \in 1..Len(d) : d[i].k = k

DictGet(d, k) == d[CHOOSE i \in 1..Len(d) : d[i].k = k].v

\* d[k] = v : a key already present keeps its position
DictSet(d, k, v) ==
    IF DictHas(d, k)
    THEN [i \in 1..Len(d) |-> IF d[i].k = k THEN [k |-> k, v |-> v] ELSE d[i]]
    ELSE Append(d, [k |-> k, v |-> v])

RECURSIVE DictSetAll(_, _)
DictSetAll(d, kvs) ==
    IF kvs = <<>> THEN d
    ELSE DictSetAll(DictSet(d, Head(kvs).k, Head(kvs).v), Tail(kvs))

-----------------------------------------------------------------------------
(* The AST provider: find_all (breadth first), alias_or_name, sql()        *)

IsTable(f) == f.kind = "table"
IsSubquery(f) == f.kind = "subquery"

\* SELECT nodes directly nested in a SELECT: derived tables of its FROM/JOIN
\* list, then the bodies of its WITH clause (the parser attaches "with"
\* after the other arguments).
ChildSelects(sel) ==
    [i \in 1..Len(Filter(sel.from, IsSubquery)) |-> Filter(sel.from, IsSubquery)[i].body]
    \o [i \in 1..Len(sel.with) |-> sel.with[i].body]

\* every SELECT node under the given ones, level by level
RECURSIVE WalkSelects(_)
WalkSelects(level) ==
    IF level = <<>> THEN <<>>
    ELSE level \o WalkSelects(Concat([i \in 1..Len(level) |-> ChildSelects(level[i])]))

\* select_node.find_all(exp.Table): every table under the node, nested
\* bodies included, nearest level first
find_all_Table(sel) ==
    LET nodes == WalkSelects(<<sel>>)
    IN Concat([i \in 1..Len(nodes) |-> Filter(nodes[i].from, IsTable)])

\* select_node.find_all(exp.Subquery)
find_all_Subquery(sel) ==
    LET nodes == WalkSelects(<<sel>>)
    IN Concat([i \in 1..Len(nodes) |-> Filter(nodes[i].from, IsSubquery)])

alias_or_name(t) == IF t.alias # "" THEN t.alias ELSE t.name

RECURSIVE Join(_)
Join(ss) ==
    IF ss = <<>> THEN ""
    ELSE IF Len(ss) = 1 THEN ss[1] ELSE ss[1] \o ", " \o Join(Tail(ss))

\* expr.sql(): the rendered text of an expression
RECURSIVE Sql(_)
Sql(e) ==
    IF e.kind = "column" THEN (IF e.table = "" THEN e.name ELSE e.table \o "." \o e.name)
    ELSE IF e.kind = "func" THEN e.fname \o "(" \o Join([i \in 1..Len(e.args) |-> Sql(e.args[i])]) \o ")"
    ELSE e.text

\* f"{table}.{column}"
Ref(t, c) == t \o "." \o c

-----------------------------------------------------------------------------
(* LineageParser                                                           *)

\* build_cte_map: CTE name -> SELECT of the statement's WITH clause
build_cte_map(q) ==
    IF ~IsSelect(q) THEN <<>>
    ELSE DictSetAll(<<>>, [i \in 1..Len(q.with) |-> [k |-> q.with[i].name, v |-> q.with[i].body]])

PhysicalTarget(n) == [kind |-> "table", name |-> n]
SubqueryTarget(b) == [kind |-> "subquery", body |-> b]

HasAlias(s) == s.alias # ""

\* build_alias_map: tables first, then the aliased subqueries
build_alias_map(sel, parent_alias_map) ==
    LET tables == find_all_Table(sel)
        subs == Filter(find_all_Subquery(sel), HasAlias)
        withTables == DictSetAll(parent_alias_map,
            [i \in 1..Len(tables) |-> [k |-> alias_or_name(tables[i]), v |-> PhysicalTarget(tables[i].name)]])
    IN DictSetAll(withTables,
            [i \in 1..Len(subs) |-> [k |-> subs[i].alias, v |-> SubqueryTarget(subs[i].body)]])

\* extract_tables
extract_tables(sel) ==
    LET tables == find_all_Table(sel)
    IN [i \in 1..Len(tables) |-> [table_name |-> tables[i].name, alias |-> alias_or_name(tables[i])]]

\* column_name of a projection (extract_column_metadata, lines 106-111)
ColumnName(proj) == IF proj.alias # "" THEN proj.alias ELSE Sql(proj.expr)

\* A raised RecursionError unwinds every frame: err is carried to the top.
\* maxd is the deepest extract_select nesting reached.
Raised(d) == [err |-> TRUE, lineage |-> <<>>, maxd |-> d]
Max(a, b) == IF a >= b THEN a ELSE b

\* lineage of the projections of sub_meta["columns"] named col_name
NamedLineages(columns, col_name) ==
    LET hits == Filter(columns, LAMBDA c : c.column_name = col_name)
    IN [i \in 1..Len(hits) |-> hits[i].lineage]

RECURSIVE extract_select(_, _, _, _)
RECURSIVE extract_columns(_, _, _, _, _)
RECURSIVE resolve_expression(_, _, _, _)
RECURSIVE resolve_children(_, _, _, _, _)
RECURSIVE resolve_column(_, _, _, _)
RECURSIVE resolve_ctes(_, _, _, _, _)

\* lines 146-166: T.C through the projections of a subquery or CTE body
resolve_through(body, table_alias, col_name, cte_map, d) ==
    Once(extract_select(body, <<>>, cte_map, d + 1), LAMBDA sub_meta :
        IF sub_meta.err THEN Raised(sub_meta.maxd)
        ELSE Once(NamedLineages(sub_meta.columns, col_name), LAMBDA hits :
                [err |-> FALSE,
                 lineage |-> IF hits # <<>> THEN hits[1] ELSE <<Ref(table_alias, col_name)>>,
                 maxd |-> sub_meta.maxd]))

\* lines 172-185: every physical table of the scope, then every CTE
resolve_unqualified(col_name, alias_map, cte_map, d) ==
    Once(resolve_ctes(cte_map, 1, col_name, cte_map, d), LAMBDA more :
        IF more.err THEN Raised(more.maxd)
        ELSE LET phys == Filter(alias_map, LAMBDA kv : kv.v.kind = "table")
                 results == [i \in 1..Len(phys) |-> Ref(phys[i].v.name, col_name)]
             IN Once(Dedup(results \o more.lineage), LAMBDA all :
                   [err |-> FALSE,
                    lineage |-> IF all # <<>> THEN all ELSE <<col_name>>,
                    maxd |-> more.maxd]))

resolve_column(col, alias_map, cte_map, d) ==
    LET table_alias == col.table
        col_name == col.name
        bound == DictHas(alias_map, table_alias)
        target == DictGet(alias_map, table_alias)
    IN IF table_alias # "" /\ bound /\ target.kind = "subquery"
         THEN resolve_through(target.body, table_alias, col_name, cte_map, d)
       ELSE IF table_alias # "" /\ DictHas(cte_map, table_alias)
         THEN resolve_through(DictGet(cte_map, table_alias), table_alias, col_name, cte_map, d)
       ELSE IF table_alias # "" /\ bound /\ target.kind = "table"
         THEN [err |-> FALSE, lineage |-> <<Ref(target.name, col_name)>>, maxd |-> d]
       ELSE resolve_unqualified(col_name, alias_map, cte_map, d)

\* lines 179-183: the loop over cte_map.items(), from entry i on
resolve_ctes(ctes, i, col_name, cte_map, d) ==
    IF i > Len(ctes) THEN [err |-> FALSE, lineage |-> <<>>, maxd |-> d]
    ELSE Once(extract_select(ctes[i].v, <<>>, cte_map, d + 1), LAMBDA sub_meta :
            IF sub_meta.err THEN Raised(sub_meta.maxd)
            ELSE Once(resolve_ctes(ctes, i + 1, col_name, cte_map, d), LAMBDA rest :
                    IF rest.err THEN Raised(Max(sub_meta.maxd, rest.maxd))
                    ELSE [err |-> FALSE,
                          lineage |-> Concat(NamedLineages(sub_meta.columns, col_name)) \o rest.lineage,
                          maxd |-> Max(sub_meta.maxd, rest.maxd)]))

\* lines 128-135: deps of the children of a non-column expression, from i on
resolve_children(args, i, alias_map, cte_map, d) ==
    IF i > Len(args) THEN [err |-> FALSE, lineage |-> <<>>, maxd |-> d]
    ELSE Once(resolve_expression(args[i], alias_map, cte_map, d), LAMBDA first :
            IF first.err THEN Raised(first.maxd)
            ELSE Once(resolve_children(args, i + 1, alias_map, cte_map, d), LAMBDA rest :
                    IF rest.err THEN Raised(Max(first.maxd, rest.maxd))
                    ELSE [err |-> FALSE, lineage |-> first.lineage \o rest.lineage,
                          maxd |-> Max(first.maxd, rest.maxd)]))

resolve_expression(expr, alias_map, cte_map, d) ==
    IF expr.kind = "column" THEN resolve_column(expr, alias_map, cte_map, d)
    ELSE Once(resolve_children(IF expr.kind = "func" THEN expr.args ELSE <<>>,
                               1, alias_map, cte_map, d), LAMBDA deps :
            IF deps.err THEN deps
            ELSE [err |-> FALSE, lineage |-> Dedup(deps.lineage), maxd |-> deps.maxd])

extract_column_metadata(proj, alias_map, cte_map, d) ==
    Once(resolve_expression(proj.expr, alias_map, cte_map, d), LAMBDA lin :
        [err |-> lin.err, maxd |-> lin.maxd,
         meta |-> [column_name |-> ColumnName(proj),
                   expression |-> Sql(proj.expr),
                   lineage |-> lin.lineage]])

\* lines 26-29: the loop over select_node.expressions, from i on
extract_columns(projs, i, alias_map, cte_map, d) ==
    IF i > Len(projs) THEN [err |-> FALSE, columns |-> <<>>, maxd |-> d]
    ELSE Once(extract_column_metadata(projs[i], alias_map, cte_map, d), LAMBDA first :
            IF first.err THEN [err |-> TRUE, columns |-> <<>>, maxd |-> first.maxd]
            ELSE Once(extract_columns(projs, i + 1, alias_map, cte_map, d), LAMBDA rest :
                    IF rest.err
                    THEN [err |-> TRUE, columns |-> <<>>, maxd |-> Max(first.maxd, rest.maxd)]
                    ELSE [err |-> FALSE, columns |-> <<first.meta>> \o rest.columns,
                          maxd |-> Max(first.maxd, rest.maxd)]))

\* d is the number of extract_select frames on the stack, this one included
extract_select(select_node, parent_alias_map, cte_map, d) ==
    IF d > RecursionLimit
    THEN [err |-> TRUE, columns |-> <<>>, tables |-> <<>>, maxd |-> d]
    ELSE Once(build_alias_map(select_node, parent_alias_map), LAMBDA alias_map :
            Once(extract_columns(select_node.projs, 1, alias_map, cte_map, d), LAMBDA cols :
                [err |-> cols.err,
                 columns |-> cols.columns,
                 tables |-> IF cols.err THEN <<>> ELSE extract_tables(select_node),
                 maxd |-> cols.maxd]))

-----------------------------------------------------------------------------
(* DDLMetadataParser of parse_view_ddl.py: the unknown-alias heuristic     *)

\* alias_map["__physical_tables__"]: one entry per table node under the
\* SELECT, nested bodies included
physical_tables(sel) ==
    [i \in 1..Len(find_all_Table(sel)) |-> find_all_Table(sel)[i].name]

resolve_unknown_alias(table_alias, tables, col_name) ==
    IF Len(tables) = 1 THEN <<Ref(tables[1], col_name)>> ELSE <<Ref(table_alias, col_name)>>

-----------------------------------------------------------------------------
(* view_ddl_parser.py: lineage grouped by base table                       *)

build_alias_to_table_map(sel) ==
    LET tables == find_all_Table(sel)
    IN DictSetAll(<<>>, [i \in 1..Len(tables) |-> [k |-> alias_or_name(tables[i]), v |-> tables[i].name]])

\* node.parent is passed along with the node
is_noncolumn_identifier(node, parent) ==
    IF node.kind # "identifier" THEN FALSE
    ELSE parent.kind \in {"func", "interval", "extract"}

extract_ctes(q) ==
    IF ~IsSelect(q) THEN <<>>
    ELSE DictSetAll(<<>>, [i \in 1..Len(q.with) |-> [k |-> q.with[i].name, v |-> q.with[i].body]])

extract_subqueries(sel) ==
    LET subs == Filter(find_all_Subquery(sel), HasAlias)
    IN DictSetAll(<<>>, [i \in 1..Len(subs) |-> [k |-> subs[i].alias, v |-> subs[i].body]])

guess_table_for_unqualified(col_name, alias_to_table) ==
    IF alias_to_table = <<>> THEN "<unknown>" ELSE alias_to_table[1].v

\* expr.find_all(exp.Column): the column nodes of an expression, each with
\* its parent node
RECURSIVE find_all_Column(_, _)
find_all_Column(e, parent) ==
    IF e.kind = "column" THEN <<[node |-> e, parent |-> parent]>>
    ELSE IF e.kind = "func"
      THEN Concat([i \in 1..Len(e.args) |-> find_all_Column(e.args[i], [kind |-> "func"])])
    ELSE <<>>

\* lines 115-121 and 134-140: the projection of a body that answers to
\* col_name, as a one-element list, or the empty list
matched_proj(sel, col_name) ==
    LET hits == Filter(sel.projs, LAMBDA proj :
                    \/ proj.alias = col_name
                    \/ proj.alias = "" /\ proj.expr.kind = "column" /\ proj.expr.name = col_name)
    IN IF hits = <<>> THEN <<>> ELSE <<hits[1].expr>>

RECURSIVE resolve_column_lineage(_, _, _, _, _)
RECURSIVE resolve_found_columns(_, _, _, _, _, _)

\* lines 110-151 for one column of the expression; d counts the nested
\* calls of resolve_column_lineage
resolve_found_column(col, alias_to_table, ctes, subqueries, d) ==
    LET table_alias == col.table
        col_name == col.name
        table_name == IF table_alias # ""
                      THEN (IF DictHas(alias_to_table, table_alias)
                            THEN DictGet(alias_to_table, table_alias) ELSE table_alias)
                      ELSE guess_table_for_unqualified(col_name, alias_to_table)
        inner == IF DictHas(ctes, table_name) THEN <<DictGet(ctes, table_name)>>
                 ELSE IF DictHas(subqueries, table_name) THEN <<DictGet(subqueries, table_name)>>
                 ELSE <<>>
    IN IF inner = <<>> \/ matched_proj(inner[1], col_name) = <<>>
       THEN [err |-> FALSE, lineage |-> {<<table_name, col_name>>}]
       ELSE resolve_column_lineage(matched_proj(inner[1], col_name)[1],
                                   build_alias_to_table_map(inner[1]), ctes,
                                   extract_subqueries(inner[1]), d + 1)

\* the loop of line 101, from the i-th column found on
resolve_found_columns(found, i, alias_to_table, ctes, subqueries, d) ==
    IF i > Len(found) THEN [err |-> FALSE, lineage |-> {}]
    ELSE IF is_noncolumn_identifier(found[i].node, found[i].parent)
      THEN resolve_found_columns(found, i + 1, alias_to_table, ctes, subqueries, d)
    ELSE Once(resolve_found_column(found[i].node, alias_to_table, ctes, subqueries, d), LAMBDA first :
            IF first.err THEN first
            ELSE Once(resolve_found_columns(found, i + 1, alias_to_table, ctes, subqueries, d), LAMBDA rest :
                    [err |-> rest.err, lineage |-> IF rest.err THEN {} ELSE first.lineage \cup rest.lineage]))

resolve_column_lineage(expr, alias_to_table, ctes, subqueries, d) ==
    IF d > RecursionLimit THEN [err |-> TRUE, lineage |-> {}]
    ELSE resolve_found_columns(find_all_Column(expr, [kind |-> "projection"]), 1,
                               alias_to_table, ctes, subqueries, d)

\* parsed.this.name: the last part of the view's qualified name
view_bare_name(view) == IF view = "[GCF].[v]" THEN "v" ELSE view

\* {tbl: sorted(cols)}: the columns of the pairs, grouped by table
group_by_table(pairs) ==
    { [table |-> t, columns |-> { pr[2] : pr \in { q \in pairs : q[1] = t } }] :
        t \in { pr[1] : pr \in pairs } }

\* what extract_full_lineage_grouped_with_view(sql) returns or raises
extract_full_lineage_outcome(stmt) ==
    IF stmt.kind = "malformed" THEN [status |-> "ParseError", view_name |-> None, tables |-> {}]
    ELSE IF ~IsSelect(stmt.query) THEN [status |-> "ValueError", view_name |-> None, tables |-> {}]
    ELSE LET select_expr == stmt.query
             ctes == extract_ctes(select_expr)
             alias_to_table == build_alias_to_table_map(select_expr)
             subqueries == extract_subqueries(select_expr)
         IN Once([i \in 1..Len(select_expr.projs) |->
                    resolve_column_lineage(select_expr.projs[i].expr, alias_to_table,
                                           ctes, subqueries, 1)], LAMBDA lins :
               IF \E i \in 1..Len(lins) : lins[i].err
               THEN [status |-> "RecursionError", view_name |-> None, tables |-> {}]
               ELSE [status |-> "ok",
                     view_name |-> IF stmt.kind = "create" THEN view_bare_name(stmt.view)
                                   ELSE "unknown_view",
                     tables |-> group_by_table(UNION { lins[i].lineage : i \in 1..Len(lins) })])

-----------------------------------------------------------------------------
(* DDLNormalizer of normalize_view_ddl.py                                  *)
(*                                                                         *)
(* The statement is the parsed tree of above; from[1] is the item of the   *)
(* FROM clause and from[2..] are the JOIN targets.  normalize() returns    *)
(* the text the SQL generator renders from the rewritten tree: the model   *)
(* ends at the rewritten tree.                                             *)

\* a node of the tree as expression.walk() sees it: ref names the column
\* [b, j, a] (block path, projection, argument path) or the FROM/JOIN item
\* [b, j] of block b
Node(tag, b, j, a, kids) == [tag |-> tag, ref |-> [b |-> b, j |-> j, a |-> a], kids |-> kids]

RECURSIVE ExprTree(_, _, _, _)
ExprTree(e, b, j, a) ==
    IF e.kind = "column" THEN Node("column", b, j, a, <<>>)
    ELSE IF e.kind = "func"
      THEN Node("func", b, j, a, [i \in 1..Len(e.args) |-> ExprTree(e.args[i], b, j, a \o <<i>>)])
    ELSE Node("other", b, j, a, <<>>)

ProjTree(proj, b, j) ==
    IF proj.alias # "" THEN Node("alias", b, j, <<>>, <<ExprTree(proj.expr, b, j, <<>>)>>)
    ELSE ExprTree(proj.expr, b, j, <<>>)

RECURSIVE SelectTree(_, _)
ItemTree(item, b, i) ==
    IF item.kind = "table" THEN Node("table", b, i, <<>>, <<>>)
    ELSE Node("subquery", b, i, <<>>, <<SelectTree(item.body, b \o <<i>>)>>)

\* Select.args: expressions, then from, then joins
SelectTree(sel, b) ==
    Node("select", b, 0, <<>>,
         [j \in 1..Len(sel.projs) |-> ProjTree(sel.projs[j], b, j)]
         \o (IF sel.from = <<>> THEN <<>> ELSE <<Node("from", b, 1, <<>>, <<ItemTree(sel.from[1], b, 1)>>)>>)
         \o [i \in 1..(Len(sel.from) - 1) |->
                Node("join", b, i + 1, <<>>, <<ItemTree(sel.from[i + 1], b, i + 1)>>)])

\* CREATE VIEW v AS SELECT: the target table, then the SELECT
StatementTree(stmt) ==
    IF stmt.kind = "create"
    THEN Node("create", <<>>, 0, <<>>, <<Node("target", <<>>, 0, <<>>, <<>>), SelectTree(stmt.query, <<>>)>>)
    ELSE SelectTree(stmt.query, <<>>)

\* expression.walk(): breadth first
RECURSIVE Bfs(_)
Bfs(level) ==
    IF level = <<>> THEN <<>>
    ELSE level \o Bfs(Concat([i \in 1..Len(level) |-> level[i].kids]))

\* the FROM/JOIN item a ref names
RECURSIVE ItemAt(_, _, _)
ItemAt(sel, b, i) ==
    IF b = <<>> THEN sel.from[i] ELSE ItemAt(sel.from[Head(b)].body, Tail(b), i)

\* DDLNormalizer.__init__
FreshNormalizer ==
    [default_table |-> None, default_alias |-> None, alias_counter |-> 1,
     table_alias_map |-> <<>>, in_create |-> FALSE]

\* _detect_default_table: the first FROM clause of the statement, if any
detect_default_table(self, stmt) ==
    IF stmt.query.from = <<>> THEN self
    ELSE LET table_expr == stmt.query.from[1]
         IN IF table_expr.kind = "table"
            THEN [self EXCEPT !.default_table = table_expr.name,
                              !.default_alias = alias_or_name(table_expr)]
            ELSE IF table_expr.alias # ""
            THEN [self EXCEPT !.default_table = table_expr.alias,
                              !.default_alias = table_expr.alias]
            ELSE self

\* the state of one walk: the instance, the aliases set on FROM/JOIN items
\* and the qualifiers set on columns so far
WalkState(self) == [self |-> self, aliases |-> <<>>, tables |-> <<>>]

\* the alias a FROM/JOIN item carries now: written in the text, or set
\* earlier in this walk
AliasNow(w, stmt, ref) ==
    IF ItemAt(stmt.query, ref.b, ref.j).alias # "" THEN ItemAt(stmt.query, ref.b, ref.j).alias
    ELSE IF DictHas(w.aliases, ref) THEN DictGet(w.aliases, ref)
    ELSE ""

\* _next_alias
next_alias(self) == "t" \o ToString(self.alias_counter)

\* _normalize_table on a table that is not the CREATE target; key is
\* id(table_node)
normalize_table(w, stmt, ref, key) ==
    IF AliasNow(w, stmt, ref) # ""
    THEN [w EXCEPT !.self.table_alias_map = DictSet(@, key, AliasNow(w, stmt, ref))]
    ELSE [w EXCEPT !.self.alias_counter = @ + 1,
                   !.aliases = DictSet(@, ref, next_alias(w.self)),
                   !.self.table_alias_map = DictSet(@, key, next_alias(w.self))]

\* _normalize_subquery
normalize_subquery(w, stmt, ref) ==
    IF AliasNow(w, stmt, ref) # "" THEN w
    ELSE [w EXCEPT !.self.alias_counter = @ + 1,
                   !.aliases = DictSet(@, ref, next_alias(w.self))]

RECURSIVE ExprAt(_, _)
ExprAt(e, a) == IF a = <<>> THEN e ELSE ExprAt(e.args[Head(a)], Tail(a))

RECURSIVE BlockAt(_, _)
BlockAt(sel, b) == IF b = <<>> THEN sel ELSE BlockAt(sel.from[Head(b)].body, Tail(b))

\* _qualify_column
qualify_column(w, stmt, ref) ==
    IF ExprAt(BlockAt(stmt.query, ref.b).projs[ref.j].expr, ref.a).table # "" THEN w
    ELSE IF w.self.default_alias # None
      THEN [w EXCEPT !.tables = DictSet(@, ref, w.self.default_alias)]
    ELSE IF Len(w.self.table_alias_map) = 1
      THEN [w EXCEPT !.tables = DictSet(@, ref, w.self.table_alias_map[1].v)]
    ELSE w

\* id(node) of the n-th node walked: gen tells the nodes of one statement
\* from those of another, unless the allocator reuses the addresses
NodeId(gen, n) == [gen |-> gen, pos |-> n]

\* the position in the walk of the FROM/JOIN item a ref names
PositionOf(nodes, ref) ==
    CHOOSE n \in 1..Len(nodes) : nodes[n].tag \in {"table", "subquery"} /\ nodes[n].ref = ref

\* the body of the loop of _normalize_expression for the n-th node
normalize_node(w, stmt, nodes, n, gen) ==
    LET node == nodes[n]
    IN IF node.tag = "target"
         THEN (IF w.self.in_create THEN w ELSE normalize_table(w, stmt, node.ref, NodeId(gen, n)))
       ELSE IF node.tag = "table" THEN normalize_table(w, stmt, node.ref, NodeId(gen, n))
       ELSE IF node.tag = "subquery" THEN normalize_subquery(w, stmt, node.ref)
       ELSE IF node.tag = "join"
         THEN (IF node.kids[1].tag = "table"
               THEN normalize_table(w, stmt, node.ref, NodeId(gen, PositionOf(nodes, node.ref)))
               ELSE normalize_subquery(w, stmt, node.ref))
       ELSE IF node.tag = "column" THEN qualify_column(w, stmt, node.ref)
       ELSE w

\* _normalize_expression: the loop over expression.walk(), from node n on
RECURSIVE normalize_expression(_, _, _, _, _)
normalize_expression(w, stmt, nodes, n, gen) ==
    IF n > Len(nodes) THEN w
    ELSE Once(normalize_node(w, stmt, nodes, n, gen), LAMBDA next :
            normalize_expression(next, stmt, nodes, n + 1, gen))

\* the tree after the walk
RECURSIVE RewriteExpr(_, _, _, _, _)
RewriteExpr(e, b, j, a, w) ==
    IF e.kind = "column"
    THEN (IF DictHas(w.tables, [b |-> b, j |-> j, a |-> a])
          THEN [e EXCEPT !.table = DictGet(w.tables, [b |-> b, j |-> j, a |-> a])] ELSE e)
    ELSE IF e.kind = "func"
      THEN [e EXCEPT !.args = [i \in 1..Len(e.args) |-> RewriteExpr(e.args[i], b, j, a \o <<i>>, w)]]
    ELSE e

RECURSIVE RewriteSelect(_, _, _)
RewriteSelect(sel, b, w) ==
    [sel EXCEPT
       !.projs = [j \in 1..Len(sel.projs) |->
                    [sel.projs[j] EXCEPT !.expr = RewriteExpr(sel.projs[j].expr, b, j, <<>>, w)]],
       !.from = [i \in 1..Len(sel.from) |->
                   LET ref == [b |-> b, j |-> i, a |-> <<>>]
                       alias == IF DictHas(w.aliases, ref) THEN DictGet(w.aliases, ref)
                                ELSE sel.from[i].alias
                   IN IF sel.from[i].kind = "table" THEN [sel.from[i] EXCEPT !.alias = alias]
                      ELSE [sel.from[i] EXCEPT !.alias = alias,
                                               !.body = RewriteSelect(sel.from[i].body, b \o <<i>>, w)]]]

\* normalize(ddl) on an instance in state self: the instance afterwards and
\* what the call returns
normalize_outcome(self, stmt, gen) ==
    IF stmt.kind = "malformed" THEN [self |-> self, status |-> "ParseError", tree |-> stmt]
    ELSE Once(detect_default_table([self EXCEPT !.in_create = (stmt.kind = "create")], stmt),
              LAMBDA detected :
           Once(normalize_expression(WalkState(detected), stmt, Bfs(<<StatementTree(stmt)>>), 1, gen),
                LAMBDA w :
              [self |-> w.self, status |-> "ok",
               tree |-> [stmt EXCEPT !.query = RewriteSelect(stmt.query, <<>>, w)]]))

-----------------------------------------------------------------------------
(* NormalizationLineageEngine                                              *)

\* A parsed statement is [kind, view, query]: kind "create" (CREATE VIEW
\* view AS query), "query" (a bare query) or "other" (no SELECT inside);
\* [kind |-> "malformed"] is text the parser rejects.
extract_view_name(ast) == IF ast.kind = "create" THEN ast.view ELSE None

NoLineage == [kind |-> "None", columns |-> <<>>, tables |-> <<>>]

\* process() without the "if not select_node" test of line 248: the missing
\* SELECT reaches extract_select, which fails on None
process_outcome_unguarded(stmt) ==
    IF stmt.kind = "malformed"
    THEN [status |-> "ParseError", view_name |-> None, lineage |-> NoLineage, maxd |-> 0]
    ELSE LET view_name == extract_view_name(stmt)
             cte_map == build_cte_map(stmt.query)
         IN IF ~IsSelect(stmt.query)
            THEN [status |-> "AttributeError", view_name |-> None, lineage |-> NoLineage, maxd |-> 1]
            ELSE Once(extract_select(stmt.query, <<>>, cte_map, 1), LAMBDA meta :
                    IF meta.err
                    THEN [status |-> "RecursionError", view_name |-> None,
                          lineage |-> NoLineage, maxd |-> meta.maxd]
                    ELSE [status |-> "ok", view_name |-> view_name,
                          lineage |-> [kind |-> "select", columns |-> meta.columns,
                                       tables |-> meta.tables],
                          maxd |-> meta.maxd])

\* process() with the CTE registry kept on the instance: the names the
\* previous call registered are still there when the next call resolves
process_outcome_keeps_ctes(stmt) ==
    IF stmt.kind = "malformed"
    THEN [status |-> "ParseError", view_name |-> None, lineage |-> NoLineage, maxd |-> 0]
    ELSE LET view_name == extract_view_name(stmt)
             kept == IF log = <<>> THEN <<>> ELSE build_cte_map(log[Len(log)].sql.query)
             cte_map == DictSetAll(kept, build_cte_map(stmt.query))
         IN IF ~IsSelect(stmt.query)
            THEN [status |-> "ok", view_name |-> view_name, lineage |-> NoLineage, maxd |-> 0]
            ELSE Once(extract_select(stmt.query, <<>>, cte_map, 1), LAMBDA meta :
                    IF meta.err
                    THEN [status |-> "RecursionError", view_name |-> None,
                          lineage |-> NoLineage, maxd |-> meta.maxd]
                    ELSE [status |-> "ok", view_name |-> view_name,
                          lineage |-> [kind |-> "select", columns |-> meta.columns,
                                       tables |-> meta.tables],
                          maxd |-> meta.maxd])

\* what process(sql) returns or raises, and how deep extract_select nested
process_outcome(stmt) ==
    IF stmt.kind = "malformed"
    THEN [status |-> "ParseError", view_name |-> None, lineage |-> NoLineage, maxd |-> 0]
    ELSE LET view_name == extract_view_name(stmt)
             cte_map == build_cte_map(stmt.query)
         IN IF ~IsSelect(stmt.query)
            THEN [status |-> "ok", view_name |-> view_name, lineage |-> NoLineage, maxd |-> 0]
            ELSE Once(extract_select(stmt.query, <<>>, cte_map, 1), LAMBDA meta :
                    IF meta.err
                    THEN [status |-> "RecursionError", view_name |-> None,
                          lineage |-> NoLineage, maxd |-> meta.maxd]
                    ELSE [status |-> "ok", view_name |-> view_name,
                          lineage |-> [kind |-> "select", columns |-> meta.columns,
                                       tables |-> meta.tables],
                          maxd |-> meta.maxd])

-----------------------------------------------------------------------------
(* Inputs                                                                  *)

\* bodies of derived tables and CTEs
BodyProjLists ==
    { <<P("col", Col("a", "x"))>>,
      <<P("", Col("a", "x"))>>,
      <<P("col", Col("", "x"))>>,
      <<P("", Col("", "x"))>>,
      <<P("", Col("a", "col")), P("col", Col("a", "x"))>> }

BodyFroms ==
    { <<T("t1", "a")>>, <<T("t2", "a")>>, <<T("t1", "")>>, <<T("t1", "a"), T("t2", "b")>> }

LeafBodies == { Sel(ps, fs) : ps \in BodyProjLists, fs \in BodyFroms }

NestedBodies ==
    { Sel(<<P("col", Col("s", n))>>, <<Sub("s", Sel(ps, <<T("t1", "a")>>))>>) :
        n \in {"x", "col"}, ps \in { <<P("col", Col("a", "x"))>>, <<P("", Col("a", "x"))>> } }

Bodies == LeafBodies \cup NestedBodies

\* a CTE body that reads the CTE itself
SelfBodies == { Sel(<<P("", Col("c", "x"))>>, <<T("c", "")>>) }

CteLists ==
    { <<Cte("c", b)>> : b \in LeafBodies \cup SelfBodies }
    \cup { <<Cte("c", b), Cte("d", Sel(<<P("col", Col("c", "col"))>>, <<T("c", "")>>))>> :
             b \in { Sel(ps, <<T("t1", "a")>>) : ps \in BodyProjLists } }

TableFroms ==
    { <<T("t1", "")>>, <<T("t1", "a")>>, <<T("t1", "a"), T("t2", "b")>>,
      <<T("t1", ""), T("t2", "")>>, <<T("c", "")>>, <<T("c", "s")>>, <<T("d", "")>> }

SubqueryFroms ==
    { <<Sub("s", b)>> : b \in Bodies } \cup { <<T("t1", "a"), Sub("s", b)>> : b \in Bodies }

\* a CTE c together with a derived table or a physical table called c
CollisionContexts ==
    { [with |-> <<Cte("c", Sel(<<P("col", Col("a", "x"))>>, <<T("t1", "a")>>))>>, from |-> f] :
        f \in { <<Sub("c", Sel(<<P("col", Col("a", "x"))>>, <<T("t2", "a")>>))>>,
                <<Sub("c", Sel(<<P("col", Col("b", "col"))>>, <<T("t2", "b")>>))>>,
                <<T("t2", "c")>> } }

\* [with, from] of the main SELECT
Contexts ==
    { [with |-> <<>>, from |-> f] : f \in TableFroms \cup SubqueryFroms }
    \cup { [with |-> w, from |-> f] : w \in CteLists, f \in TableFroms }
    \cup CollisionContexts

MainProjs ==
    { P("", Col(q, n)) : q \in {"", "a", "b", "s", "c"}, n \in {"x", "col"} }
    \cup { P("k", Col("a", "x")),
           P("", Fn("SUM", <<Col("a", "x"), Col("b", "x")>>)),
           P("k", Fn("COALESCE", <<Col("", "x"), Col("a", "x"), Lit("0")>>)) }

\* date functions whose first argument is a unit keyword
UnitProjs ==
    { P("m", UnitFn("DATEDIFF", u, <<Col("a", "x"), Col("b", "x")>>)) :
        u \in { Var("mi"), Col("", "mi") } }
    \cup { P("m", UnitFn("DATEADD", Col("", "day"), <<Lit("1"), Col("a", "x")>>)) }

\* contexts of the inputs with several projections
FewContexts ==
    { [with |-> <<>>, from |-> <<T("t1", "a"), T("t2", "b")>>],
      [with |-> <<>>, from |-> <<T("t1", ""), T("t2", "")>>],
      [with |-> <<>>, from |-> <<T("t1", "a"), Sub("s", Sel(<<P("col", Col("a", "x"))>>, <<T("t2", "a")>>))>>],
      [with |-> <<Cte("c", Sel(<<P("col", Col("a", "x"))>>, <<T("t1", "a")>>))>>, from |-> <<T("c", "s")>>],
      [with |-> <<Cte("c", Sel(<<P("col", Col("", "x"))>>, <<T("t1", "")>>))>>, from |-> <<T("c", "")>>] }

ProjLists(n) == UNION { [1..k -> MainProjs] : k \in 2..n }

Queries ==
    { SelWith(c.with, <<p>>, c.from) : c \in Contexts, p \in MainProjs }
    \cup { SelWith(c.with, ps, c.from) : c \in FewContexts, ps \in ProjLists(MaxProjs) }
    \cup { SelWith(c.with, <<p>>, c.from) : c \in FewContexts, p \in UnitProjs }

Statements ==
    { [kind |-> "query", view |-> "", query |-> q] : q \in Queries }
    \cup { [kind |-> "create", view |-> "v", query |-> q] :
             q \in { SelWith(c.with, ps, c.from) : c \in FewContexts, ps \in ProjLists(MaxProjs) } }
    \cup { [kind |-> "create", view |-> v, query |-> NoSelect] : v \in {"v", "[GCF].[v]"} }
    \cup { [kind |-> "other", view |-> "", query |-> NoSelect],
           [kind |-> "malformed", view |-> "", query |-> NoSelect] }

\* the statements given to an engine that is called several times
CallStatements ==
    { [kind |-> "query", view |-> "",
       query |-> SelWith(<<Cte("c", Sel(<<P("col", Col("a", "x"))>>, <<T("t1", "a")>>))>>,
                         <<P("", Col("c", "col"))>>, <<T("c", "")>>)],
      [kind |-> "query", view |-> "",
       query |-> SelWith(<<Cte("c", Sel(<<P("", Col("c", "x"))>>, <<T("c", "")>>))>>,
                         <<P("", Col("c", "x"))>>, <<T("c", "")>>)],
      [kind |-> "query", view |-> "", query |-> Sel(<<P("", Col("", "col"))>>, <<T("t1", "")>>)],
      [kind |-> "query", view |-> "", query |-> Sel(<<P("", Col("c", "col"))>>, <<T("t1", "a")>>)],
      [kind |-> "query", view |-> "",
       query |-> Sel(<<P("", Col("s", "col"))>>,
                     <<Sub("s", Sel(<<P("col", Col("a", "x"))>>, <<T("t2", "a")>>))>>)],
      [kind |-> "create", view |-> "v", query |-> NoSelect],
      [kind |-> "malformed", view |-> "", query |-> NoSelect] }

-----------------------------------------------------------------------------
(* The engine: one call of process() on one statement                      *)

NoResult == [status |-> "none", view_name |-> None, lineage |-> NoLineage]
NoGrouped == [status |-> "none", view_name |-> None, tables |-> {}]
NoOutput == [status |-> "none", tree |-> None]

\* no DDLNormalizer of normalize_view_ddl.py is in use
NormalizerIdle ==
    /\ ddl = None
    /\ npc = "idle"
    /\ norm = FreshNormalizer
    /\ normalized = NoOutput
    /\ ncalls = 0

Init ==
    /\ sql \in Statements
    /\ pc = "ready"
    /\ result = NoResult
    /\ depth = 0
    /\ log = <<>>
    /\ vpc = "ready"
    /\ grouped = NoGrouped
    /\ NormalizerIdle

\* NormalizationLineageEngine.process; log is the history of the calls made
\* on the instance, the statement and what the call returned or raised
process ==
    /\ pc = "ready"
    /\ \E out \in {process_outcome(sql)} :
          /\ result' = [status |-> out.status, view_name |-> out.view_name, lineage |-> out.lineage]
          /\ depth' = out.maxd
    /\ pc' = "done"
    /\ log' = Append(log, [sql |-> sql, result |-> result'])
    /\ UNCHANGED <<sql, vpc, grouped>>
    /\ UNCHANGED normalizer_vars

\* view_ddl_parser.extract_full_lineage_grouped_with_view on the same text
extract_full_lineage_grouped_with_view ==
    /\ vpc = "ready"
    /\ \E out \in {extract_full_lineage_outcome(sql)} : grouped' = out
    /\ vpc' = "done"
    /\ UNCHANGED <<sql, pc, result, depth, log>>
    /\ UNCHANGED normalizer_vars

Next == process \/ extract_full_lineage_grouped_with_view

Spec == Init /\ [][Next]_vars

-----------------------------------------------------------------------------
(* The engine called again and again: engine.process(a); engine.process(b) *)

InitCalls ==
    /\ sql \in CallStatements
    /\ pc = "ready"
    /\ result = NoResult
    /\ depth = 0
    /\ log = <<>>
    /\ vpc = "ready"
    /\ grouped = NoGrouped
    /\ NormalizerIdle

\* the caller hands the next statement to the same engine instance
call ==
    /\ pc = "done"
    /\ Len(log) < MaxCalls
    /\ sql' \in CallStatements
    /\ pc' = "ready"
    /\ UNCHANGED <<result, depth, log, vpc, grouped>>
    /\ UNCHANGED normalizer_vars

NextCalls == process \/ call

SpecCalls == InitCalls /\ [][NextCalls]_vars

-----------------------------------------------------------------------------
(* One DDLNormalizer of normalize_view_ddl.py, called again and again      *)

Query(q) == [kind |-> "query", view |-> "", query |-> q]

NormalizeStatements ==
    { Query(Sel(<<P("", Col("", "x"))>>, <<T("users", "")>>)),
      Query(Sel(<<P("", Col("", "x"))>>, <<T("users", "u")>>)),
      Query(Sel(<<P("", Col("", "x")), P("k", Col("o", "y"))>>, <<T("users", "u"), T("orders", "")>>)),
      Query(Sel(<<P("", Col("u", "x")), P("", Col("o", "y"))>>, <<T("users", "u"), T("orders", "o")>>)),
      Query(Sel(<<P("", Col("", "x"))>>,
                <<Sub("", Sel(<<P("", Col("", "y"))>>, <<T("users", "")>>))>>)),
      Query(Sel(<<P("k", Fn("COALESCE", <<Col("", "x"), Lit("0")>>))>>,
                <<Sub("s", Sel(<<P("", Col("", "x"))>>, <<T("orders", "")>>))>>)),
      Query(Sel(<<P("", Col("", "x"))>>, <<>>)),
      [kind |-> "create", view |-> "v", query |-> Sel(<<P("", Col("", "x"))>>, <<T("users", "")>>)],
      [kind |-> "malformed", view |-> "", query |-> NoSelect] }

InitNormalize ==
    /\ sql = None
    /\ pc = "idle"
    /\ result = NoResult
    /\ depth = 0
    /\ log = <<>>
    /\ vpc = "idle"
    /\ grouped = NoGrouped
    /\ ddl \in NormalizeStatements
    /\ npc = "ready"
    /\ norm = FreshNormalizer
    /\ normalized = NoOutput
    /\ ncalls = 0

\* DDLNormalizer.normalize.  The keys of table_alias_map are id(node): the
\* nodes of an earlier statement are dead, and the allocator may or may not
\* hand their addresses to the nodes of this one.
normalize ==
    /\ npc = "ready"
    /\ \E reuse \in BOOLEAN :
          \E r \in {normalize_outcome(norm, ddl, IF reuse THEN 0 ELSE ncalls + 1)} :
              /\ norm' = r.self
              /\ normalized' = [status |-> r.status, tree |-> r.tree]
    /\ npc' = "done"
    /\ ncalls' = ncalls + 1
    /\ UNCHANGED ddl
    /\ UNCHANGED engine_vars

\* the caller hands the next statement to the same normalizer
next_ddl ==
    /\ npc = "done"
    /\ ncalls < MaxNormalizeCalls
    /\ ddl' \in NormalizeStatements
    /\ npc' = "ready"
    /\ UNCHANGED <<norm, normalized, ncalls>>
    /\ UNCHANGED engine_vars

NextNormalize == normalize \/ next_ddl

SpecNormalize == InitNormalize /\ [][NextNormalize]_vars

-----------------------------------------------------------------------------
(* Vocabulary of the properties                                            *)

Parses(stmt) == stmt.kind # "malformed"
HasSelect(stmt) == Parses(stmt) /\ IsSelect(stmt.query)
Done == pc = "done"
Ok == result.status = "ok"

CteNames(q) == { q.with[i].name : i \in 1..Len(q.with) }
OwnTables(sel) == Filter(sel.from, IsTable)
OwnSubqueries(sel) == Filter(sel.from, IsSubquery)

\* the projections of the main SELECT that are a plain column
ColumnProjs(q) == { i \in 1..Len(q.projs) : q.projs[i].expr.kind = "column" }
QualifiedProjs(q) == { i \in ColumnProjs(q) : q.projs[i].expr.table # "" }
UnqualifiedProjs(q) == { i \in ColumnProjs(q) : q.projs[i].expr.table = "" }

\* lineage reported for the i-th top-level projection
LineageOf(i) == result.lineage.columns[i].lineage

\* the first projection of a body whose output name is n, 0 if none
FirstNamed(body, n) ==
    LET hits == { j \in 1..Len(body.projs) : ColumnName(body.projs[j]) = n }
    IN IF hits = {} THEN 0 ELSE CHOOSE j \in hits : \A k \in hits : j <= k

\* C1: a column T.C whose qualifier T names a CTE with a projection named C
\* gets the lineage of that projection, resolved in the CTE's own scope
\* (WITH c AS (SELECT x AS col FROM t1) SELECT c.col FROM c gives ["t1.x"]).
C1_Example ==
    [kind |-> "query", view |-> "",
     query |-> SelWith(<<Cte("c", Sel(<<P("col", Col("", "x"))>>, <<T("t1", "")>>))>>,
                       <<P("", Col("c", "col"))>>, <<T("c", "")>>)]

C1_Traced(q, i) ==
    LET col == q.projs[i].expr
        cte_map == build_cte_map(q)
        body == DictGet(cte_map, col.table)
        j == FirstNamed(body, col.name)
        own == resolve_expression(body.projs[j].expr, build_alias_map(body, <<>>), cte_map, 2)
    IN j # 0 => /\ Ok
                /\ ~own.err
                /\ LineageOf(i) = own.lineage

C1_CteColumnTraced ==
    Done /\ HasSelect(sql) =>
        /\ \A i \in QualifiedProjs(sql.query) :
              sql.query.projs[i].expr.table \in CteNames(sql.query) => C1_Traced(sql.query, i)
        /\ sql = C1_Example => Ok /\ LineageOf(1) = <<"t1.x">>

\* C2: a statement that parses and holds a SELECT always completes, with one
\* column entry per top-level projection, in projection order.
C2_AlwaysProducesColumns ==
    Done /\ HasSelect(sql) =>
        /\ Ok
        /\ Len(result.lineage.columns) = Len(sql.query.projs)
        /\ \A i \in 1..Len(sql.query.projs) :
              result.lineage.columns[i].expression = Sql(sql.query.projs[i].expr)

\* the CTEs a CTE body reads, and whether some CTE reaches itself
ReadsCtes(q, body) ==
    LET ts == find_all_Table(body)
    IN { ts[i].name : i \in 1..Len(ts) } \cap CteNames(q)

RECURSIVE ReachCtes(_, _, _)
ReachCtes(q, names, k) ==
    IF k = 0 THEN names
    ELSE ReachCtes(q, names \cup UNION { ReadsCtes(q, DictGet(build_cte_map(q), n)) : n \in names }, k - 1)

NoSelfReference(q) ==
    \A n \in CteNames(q) :
        n \notin ReachCtes(q, ReadsCtes(q, DictGet(build_cte_map(q), n)), Len(q.with))

SetMax(S) == IF S = {} THEN 0 ELSE CHOOSE m \in S : \A k \in S : k <= m

\* longest chain of SELECT blocks: into a derived table, into a CTE of the
\* block's WITH clause, or into a CTE the block's FROM list names
RECURSIVE NestingDepth(_, _)
NestingDepth(q, sel) ==
    LET subs == OwnSubqueries(sel)
        tabs == OwnTables(sel)
        cte_map == build_cte_map(q)
    IN 1 + SetMax({ NestingDepth(q, subs[i].body) : i \in 1..Len(subs) }
                  \cup { NestingDepth(q, sel.with[i].body) : i \in 1..Len(sel.with) }
                  \cup { NestingDepth(q, DictGet(cte_map, tabs[i].name)) :
                           i \in { k \in 1..Len(tabs) : DictHas(cte_map, tabs[k].name) } })

\* C3: when no CTE reads itself, resolution terminates and extract_select
\* never nests deeper than the statement's subquery/CTE nesting depth.
C3_DepthBounded ==
    Done /\ HasSelect(sql) /\ NoSelfReference(sql.query) =>
        /\ result.status # "RecursionError"
        /\ depth <= NestingDepth(sql.query, sql.query)

\* the table of the block's own FROM/JOIN list bound to qualifier t
BoundTables(sel, t) == Filter(OwnTables(sel), LAMBDA f : alias_or_name(f) = t)

\* C4: over more than one FROM/JOIN item, T.C with T bound in the block's
\* own FROM/JOIN list to the physical table `name` resolves to exactly name.C.
C4_QualifiedExact ==
    Done /\ HasSelect(sql) /\ Len(sql.query.from) > 1 =>
        \A i \in QualifiedProjs(sql.query) :
            LET col == sql.query.projs[i].expr
                bound == BoundTables(sql.query, col.table)
            IN Len(bound) = 1 /\ bound[1].name \notin CteNames(sql.query)
                              /\ col.table \notin CteNames(sql.query)
                  => Ok /\ LineageOf(i) = <<Ref(bound[1].name, col.name)>>

\* one candidate per physical table of the block's own FROM/JOIN list
OwnCandidates(sel, c) ==
    Dedup([i \in 1..Len(OwnTables(sel)) |-> Ref(OwnTables(sel)[i].name, c)])

AsSet(s) == { s[i] : i \in 1..Len(s) }

\* the statement with one more table in the FROM list of its main SELECT
WithTable(stmt, t) ==
    [stmt EXCEPT !.query = [stmt.query EXCEPT !.from = Append(stmt.query.from, t)]]

ExtraTables == { T("t2", ""), T("t2", "b") }

\* C5: in a statement without CTEs, an unqualified column resolves to one
\* candidate per physical table of the block's own FROM/JOIN list, and one
\* more table in that list removes no candidate.
C5_UnqualifiedUnion ==
    Done /\ HasSelect(sql) /\ sql.query.with = <<>> /\ OwnTables(sql.query) # <<>> =>
        \A i \in UnqualifiedProjs(sql.query) :
            /\ Ok
            /\ LineageOf(i) = OwnCandidates(sql.query, sql.query.projs[i].expr.name)
            /\ \A t \in ExtraTables :
                  LET more == process_outcome(WithTable(sql, t))
                  IN more.status = "ok" /\ AsSet(LineageOf(i)) \subseteq AsSet(more.lineage.columns[i].lineage)

\* the derived tables of the block's own FROM/JOIN list with alias t
BoundSubqueries(sel, t) == Filter(OwnSubqueries(sel), LAMBDA f : f.alias = t)

\* C6: S.col with S the alias of a derived table (SELECT e AS col ...) S of
\* the block's FROM/JOIN list, the only subquery called S with a projection
\* named col, has the lineage of e resolved in the scope of that subquery
\* (so it is the synthetic S.col only if that is e's lineage).
C6_SubqueryTransitive ==
    Done /\ HasSelect(sql) =>
        \A i \in QualifiedProjs(sql.query) :
            LET col == sql.query.projs[i].expr
                bound == BoundSubqueries(sql.query, col.table)
                body == bound[1].body
                j == FirstNamed(body, col.name)
                own == resolve_expression(body.projs[j].expr, build_alias_map(body, <<>>),
                                          build_cte_map(sql.query), 2)
                named == Filter(find_all_Subquery(sql.query),
                                LAMBDA f : f.alias = col.table /\ FirstNamed(f.body, col.name) # 0)
            IN Len(bound) = 1 /\ j # 0 /\ body.projs[j].alias = col.name /\ ~own.err
                              /\ Len(named) = 1
                  => Ok /\ LineageOf(i) = own.lineage

\* the statement WITH c AS (body) SELECT ... FROM c [alias] rewritten as
\* SELECT ... FROM (body) alias-or-c
Inlined(stmt) ==
    LET q == stmt.query
        ref == q.from[1]
    IN [stmt EXCEPT !.query = SelWith(<<>>, q.projs, <<Sub(alias_or_name(ref), q.with[1].body)>>)]

\* one CTE that reads no CTE, and a FROM list that is just that CTE
CteForm(stmt) ==
    /\ HasSelect(stmt)
    /\ Len(stmt.query.with) = 1
    /\ ReadsCtes(stmt.query, stmt.query.with[1].body) = {}
    /\ Len(stmt.query.from) = 1
    /\ IsTable(stmt.query.from[1])
    /\ stmt.query.from[1].name = stmt.query.with[1].name

\* the columns an expression holds
RECURSIVE ExprColumns(_)
ExprColumns(e) ==
    IF e.kind = "column" THEN {e}
    ELSE IF e.kind = "func" THEN UNION { ExprColumns(e.args[i]) : i \in 1..Len(e.args) }
    ELSE {}

\* every column of the main projections is qualified by the FROM item
Scoped(stmt) ==
    \A i \in 1..Len(stmt.query.projs) :
        \A c \in ExprColumns(stmt.query.projs[i].expr) :
            c.table = alias_or_name(stmt.query.from[1])

Lineages(columns) == [i \in 1..Len(columns) |-> columns[i].lineage]

\* C7: a statement reading a CTE in FROM, with or without a FROM alias, whose
\* columns are qualified by that FROM item and on which process() returns, and the statement with that body inlined as an
\* aliased subquery give the same lineage for every output column.
C7_CteSubqueryEquivalent ==
    Done /\ CteForm(sql) /\ Scoped(sql) /\ Ok =>
        LET inl == process_outcome(Inlined(sql))
        IN /\ inl.status = "ok"
           /\ Lineages(result.lineage.columns) = Lineages(inl.lineage.columns)

\* output name of a projection as section 4.5 of the design gives it
BareName(proj) ==
    IF proj.alias # "" THEN proj.alias
    ELSE IF proj.expr.kind = "column" THEN proj.expr.name
    ELSE Sql(proj.expr)

\* C8: the output name of a top-level projection is its alias, else the bare
\* column name, else the rendered text; a subquery projection written q.n is
\* found under the name n.
C8_OutputNames ==
    Done /\ HasSelect(sql) /\ Ok =>
        /\ \A i \in 1..Len(sql.query.projs) :
              result.lineage.columns[i].column_name = BareName(sql.query.projs[i])
        /\ \A i \in QualifiedProjs(sql.query) :
              LET col == sql.query.projs[i].expr
                  subs == find_all_Subquery(sql.query)
              IN Len(subs) = 1 /\ subs[1].alias = col.table
                     /\ (\E j \in 1..Len(subs[1].body.projs) : BareName(subs[1].body.projs[j]) = col.name)
                    => LineageOf(i) # <<Ref(col.table, col.name)>>

\* C9: the tables reported for the main SELECT are the tables of its own
\* FROM/JOIN list.
C9_OwnTablesOnly ==
    Done /\ HasSelect(sql) /\ Ok =>
        result.lineage.tables =
            [i \in 1..Len(OwnTables(sql.query)) |->
                [table_name |-> OwnTables(sql.query)[i].name,
                 alias |-> alias_or_name(OwnTables(sql.query)[i])]]

\* C10: a statement that parses and holds no SELECT node returns, without an
\* error and without a call of extract_select, the view name and no lineage.
C10_NoSelectNoLineage ==
    Done /\ Parses(sql) /\ ~IsSelect(sql.query) =>
        /\ result.status = "ok"
        /\ result.lineage = NoLineage
        /\ result.view_name = (IF sql.kind = "create" THEN sql.view ELSE None)
        /\ depth = 0

C10_Witness ==
    /\ Done
    /\ sql.kind = "create"
    /\ ~IsSelect(sql.query)
    /\ result = [status |-> "ok", view_name |-> "[GCF].[v]", lineage |-> NoLineage]

\* a list without a repeated entry
NoDuplicates(l) == \A i, j \in 1..Len(l) : l[i] = l[j] => i = j

\* the entries of raw at the positions where they occur first
FirstOccurrences(raw) ==
    LET kept == SelectSeq([i \in 1..Len(raw) |-> i],
                          LAMBDA i : \A j \in 1..(i - 1) : raw[j] # raw[i])
    IN [k \in 1..Len(kept) |-> raw[kept[k]]]

\* the lineage lists of the arguments of a function call, one after another
ArgumentLineages(e, alias_map, cte_map) ==
    Concat([k \in 1..Len(e.args) |-> resolve_expression(e.args[k], alias_map, cte_map, 1).lineage])

\* the SELECT bodies nested in the statement: derived tables and CTEs
NestedSelects(q) == Tail(WalkSelects(<<q>>))

\* C11: every lineage list process() produces, for a top-level projection
\* and for every projection of an analysed CTE or subquery body, holds no
\* entry twice, and the list of a function call is its arguments' lists one
\* after another with only the first occurrence of each entry kept.
C11_LineageListsDeduplicated ==
    Done /\ HasSelect(sql) /\ Ok =>
        /\ \A i \in 1..Len(sql.query.projs) : NoDuplicates(LineageOf(i))
        /\ \A n \in 1..Len(NestedSelects(sql.query)) :
              LET sub_meta == extract_select(NestedSelects(sql.query)[n], <<>>,
                                             build_cte_map(sql.query), 2)
              IN ~sub_meta.err =>
                    \A j \in 1..Len(sub_meta.columns) : NoDuplicates(sub_meta.columns[j].lineage)
        /\ \A i \in 1..Len(sql.query.projs) :
              sql.query.projs[i].expr.kind = "func" =>
                  LineageOf(i) = FirstOccurrences(
                      ArgumentLineages(sql.query.projs[i].expr,
                                       build_alias_map(sql.query, <<>>), build_cte_map(sql.query)))

\* COALESCE(x, a.x, 0) over FROM t1 a: both columns give t1.x, reported once
C11_Witness ==
    /\ Done /\ HasSelect(sql) /\ Ok
    /\ sql.query.from = <<T("t1", "a")>>
    /\ sql.query.with = <<>>
    /\ sql.query.projs[1].expr.kind = "func"
    /\ ArgumentLineages(sql.query.projs[1].expr, build_alias_map(sql.query, <<>>), <<>>)
          = <<"t1.x", "t1.x">>
    /\ LineageOf(1) = <<"t1.x">>

OwnAliases(sel) ==
    { alias_or_name(OwnTables(sel)[i]) : i \in 1..Len(OwnTables(sel)) }
    \cup { OwnSubqueries(sel)[i].alias : i \in 1..Len(OwnSubqueries(sel)) }

\* C13: the alias scope of the main SELECT binds only the qualifiers of its
\* own FROM/JOIN list, and a table named only inside a derived table gives
\* no candidate to an unqualified column of the main SELECT.
C13_ScopeIsLocal ==
    Done /\ HasSelect(sql) /\ Ok =>
        LET alias_map == build_alias_map(sql.query, <<>>)
        IN /\ \A i \in 1..Len(alias_map) : alias_map[i].k \in OwnAliases(sql.query)
           /\ sql.query.with = <<>> /\ OwnTables(sql.query) # <<>> =>
                 \A i \in UnqualifiedProjs(sql.query) :
                     AsSet(LineageOf(i)) \subseteq
                         AsSet(OwnCandidates(sql.query, sql.query.projs[i].expr.name))

\* the physical tables bound in an alias scope, one per binding
PhysicalBound(alias_map) ==
    LET phys == Filter(alias_map, LAMBDA kv : kv.v.kind = "table")
    IN [i \in 1..Len(phys) |-> phys[i].v.name]

\* what a dangling T.C resolves to, given the physical tables in scope
DanglingReference(col, tables) ==
    IF Len(tables) = 1 THEN <<Ref(tables[1], col.name)>> ELSE <<Ref(col.table, col.name)>>

\* C14: T.C with T neither a CTE name nor bound in the scope resolves to the
\* one reference table.C when exactly one physical table is bound in the
\* scope and to the one literal T.C otherwise, in the lineage engine and in
\* the unknown-alias heuristic of DDLMetadataParser.
C14_DanglingAliasSingleReference ==
    Done /\ HasSelect(sql) /\ Ok =>
        \A i \in QualifiedProjs(sql.query) :
            LET col == sql.query.projs[i].expr
                alias_map == build_alias_map(sql.query, <<>>)
            IN col.table \notin CteNames(sql.query) /\ ~DictHas(alias_map, col.table) =>
                  /\ LineageOf(i) = DanglingReference(col, PhysicalBound(alias_map))
                  /\ resolve_unknown_alias(col.table, physical_tables(sql.query), col.name)
                        = DanglingReference(col, physical_tables(sql.query))

\* the lineage of T.C through the projection C of the CTE called T, as the
\* engine and as view_ddl_parser compute it
ThroughCte(q, col) ==
    resolve_through(DictGet(build_cte_map(q), col.table), col.table, col.name, build_cte_map(q), 1)

ViewThroughCte(q, col) ==
    LET body == DictGet(extract_ctes(q), col.table)
    IN IF matched_proj(body, col.name) = <<>>
       THEN [err |-> FALSE, lineage |-> {<<col.table, col.name>>}]
       ELSE resolve_column_lineage(matched_proj(body, col.name)[1], build_alias_to_table_map(body),
                                   extract_ctes(q), extract_subqueries(body), 2)

\* C15: T.C with T a CTE name that the FROM/JOIN list of the block also binds,
\* as the alias of a derived table or of a physical table, is resolved through
\* the projection C of the CTE, by the engine and by resolve_column_lineage.
C15_CteFirst ==
    Done /\ HasSelect(sql) /\ Ok =>
        \A i \in QualifiedProjs(sql.query) :
            LET col == sql.query.projs[i].expr
                q == sql.query
            IN col.table \in CteNames(q) /\ col.table \in OwnAliases(q)
                   /\ ~ThroughCte(q, col).err /\ ~ViewThroughCte(q, col).err =>
                  /\ LineageOf(i) = ThroughCte(q, col).lineage
                  /\ resolve_column_lineage(col, build_alias_to_table_map(q), extract_ctes(q),
                                            extract_subqueries(q), 1).lineage
                        = ViewThroughCte(q, col).lineage

\* the projections of the main SELECT that call a function with a unit
UnitProjections(q) ==
    { i \in 1..Len(q.projs) : q.projs[i].expr.kind = "func" /\ "unit" \in DOMAIN q.projs[i].expr }

UnitName(e) == IF e.unit.kind = "column" THEN e.unit.name ELSE e.unit.text

\* every name a table is known by in the statement
TableNames(q) ==
    { find_all_Table(q)[i].name : i \in 1..Len(find_all_Table(q)) }
    \cup { alias_or_name(find_all_Table(q)[i]) : i \in 1..Len(find_all_Table(q)) }

\* the lineage entries that would name the unit u as a column
UnitReferences(q, u) == {u} \cup { Ref(t, u) : t \in TableNames(q) }

\* C16: the unit keyword of a date function, an identifier whose parent is
\* the function call, is in the lineage of the projection neither in the
\* engine nor in resolve_column_lineage.
C16_UnitNotInLineage ==
    Done /\ HasSelect(sql) /\ Ok =>
        \A i \in UnitProjections(sql.query) :
            LET e == sql.query.projs[i].expr
                q == sql.query
                view == resolve_column_lineage(e, build_alias_to_table_map(q), extract_ctes(q),
                                               extract_subqueries(q), 1)
            IN /\ \A k \in 1..Len(LineageOf(i)) : LineageOf(i)[k] \notin UnitReferences(q, UnitName(e))
               /\ ~view.err => \A pr \in view.lineage : pr[2] # UnitName(e)

\* what a DDLNormalizer just constructed returns for the statement
FreshOutput(stmt) ==
    [status |-> normalize_outcome(FreshNormalizer, stmt, 1).status,
     tree |-> normalize_outcome(FreshNormalizer, stmt, 1).tree]

\* C17: what normalize() returns does not depend on the statements the
\* instance normalized before: it is what a new instance returns, with the
\* generated aliases starting at t1 and no qualifier taken from the default
\* alias or the table aliases of an earlier statement.
C17_NormalizeHistoryFree ==
    npc = "done" => normalized = FreshOutput(ddl)

====
